---- MODULE Spec2Model ----
(***************************************************************************)
(* Sales Performance Dashboard (src/app.py): the Streamlit script as a     *)
(* state machine.  One script run is a walk of pc through the stages of    *)
(* the file, top to bottom; a raised exception or st.stop() ends the run.  *)
(*                                                                         *)
(* Data representation                                                     *)
(*   cell     <<>> is a missing value (NaN / <NA>), <<v>> a present one.   *)
(*            v is a string for text and for datetimes (their ISO text,    *)
(*            as to_csv and str() render them), an integer for numbers.    *)
(*   row      a function from the column labels of its table to cells.     *)
(*   table    [cols |-> set of column labels, rows |-> sequence of rows,   *)
(*             dtype |-> column label -> [kind, categories]].              *)
(*   result   [ok |-> TRUE, df |-> table] or [ok |-> FALSE, err |-> name]. *)
(***************************************************************************)
EXTENDS Integers, Sequences, FiniteSets, TLC

VARIABLES
    default_file,      \* content of cleaned_warehouse_and_retail_sales.csv on disk
    load_cache,        \* st.cache_data store of load_default_data: <<>> or <<table>>
    preprocess_cache,  \* st.cache_data store of preprocess: raw input -> output
    use_upload,        \* the "Upload my own CSV" toggle
    uploaded,          \* the file_uploader widget: <<>> or <<table>>
    pc,                \* the stage the current run is about to execute
    raw,               \* <<>> or <<table>>
    _df,               \* <<>> or <<table>>
    options,           \* <<>> or <<[years, suppliers, types]>> offered by the sidebar
    year_sel, supplier_sel, type_sel,
    filtered,          \* <<>> or <<table>>
    kpis,              \* <<>> or <<mapping>>
    monthly_sales, top_suppliers, top_items, compare_melt,   \* <<>> or <<sequence of rows>>
    preview, csv_buf, kpi_text,                              \* <<>> or <<value>>
    messages,          \* st.info / st.warning texts shown in this run
    error              \* "none" or the exception that ended the run

vars == <<default_file, load_cache, preprocess_cache, use_upload, uploaded,
          pc, raw, _df, options, year_sel, supplier_sel, type_sel, filtered, kpis,
          monthly_sales, top_suppliers, top_items, compare_melt, preview, csv_buf,
          kpi_text, messages, error>>

-----------------------------------------------------------------------------
(* Bounds of the model *)

MaxRows == 2

MaxAggRows == 3

-----------------------------------------------------------------------------
(* Values *)

NaN == <<>>

IsNa(c) == c = NaN

Val(c) == c[1]

RECURSIVE SumSeq(_)
SumSeq(s) == IF s = <<>> THEN 0 ELSE Head(s) + SumSeq(Tail(s))

Column(df, c) == [i \in 1..Len(df.rows) |-> df.rows[i][c]]

Range(s) == {s[i] : i \in 1..Len(s)}

\* Lexicographic order (Python's str comparison) of the strings the model groups and sorts by.
LexOrder == <<"2022-01", "2022-01-01", "2022-02", "2022-02-01",
              "2023-01", "2023-01-01", "2023-02", "2023-02-01",
              "A", "B", "C", "X", "Y", "nan">>

LexRank(s) == CHOOSE i \in 1..Len(LexOrder) : LexOrder[i] = s

RECURSIVE SortedSeq(_)
SortedSeq(S) ==
    IF S = {} THEN <<>>
    ELSE LET m == CHOOSE x \in S : \A y \in S : LexRank(x) <= LexRank(y)
         IN <<m>> \o SortedSeq(S \ {m})

RECURSIVE SortedInts(_)
SortedInts(S) ==
    IF S = {} THEN <<>>
    ELSE LET m == CHOOSE x \in S : \A y \in S : x <= y
         IN <<m>> \o SortedInts(S \ {m})
-----------------------------------------------------------------------------
(* Schema Normalizer *)

REQUIRED_COLS == <<"YEAR", "MONTH", "SUPPLIER", "ITEM CODE", "ITEM DESCRIPTION", "ITEM TYPE",
                   "RETAIL SALES", "RETAIL TRANSFERS", "WAREHOUSE SALES">>

RENAME_MAP == ("ITEM CODE" :> "ITEM_CODE") @@ ("ITEM DESCRIPTION" :> "ITEM_DESCRIPTION")
           @@ ("ITEM TYPE" :> "ITEM_TYPE") @@ ("RETAIL SALES" :> "RETAIL_SALES")
           @@ ("RETAIL TRANSFERS" :> "RETAIL_TRANSFERS")
           @@ ("WAREHOUSE SALES" :> "WAREHOUSE_SALES")

\* c.strip().upper() on the labels the model's input files use; any other label of
\* the model is already stripped and upper-case.
StripUpperMap == (" year" :> "YEAR") @@ ("Month " :> "MONTH") @@ ("supplier" :> "SUPPLIER")
              @@ ("Item Code" :> "ITEM CODE") @@ ("item description " :> "ITEM DESCRIPTION")
              @@ (" Item Type" :> "ITEM TYPE") @@ ("Retail Sales" :> "RETAIL SALES")
              @@ ("retail transfers" :> "RETAIL TRANSFERS")
              @@ (" Warehouse Sales " :> "WAREHOUSE SALES")

StripUpper(label) == IF label \in DOMAIN StripUpperMap THEN StripUpperMap[label] ELSE label

Rename(label) == IF label \in DOMAIN RENAME_MAP THEN RENAME_MAP[label] ELSE label

\* Re-key every row (and the dtypes) of df by new labels; from[c] is the old label of c.
Relabel(df, newcols, from) ==
    [cols  |-> newcols,
     rows  |-> [i \in 1..Len(df.rows) |-> [c \in newcols |-> df.rows[i][from[c]]]],
     dtype |-> [c \in newcols |-> df.dtype[from[c]]]]

standardize_columns(df) ==
    LET Canon(l) == Rename(StripUpper(l))
        newcols  == {Canon(l) : l \in df.cols}
        from     == [c \in newcols |-> CHOOSE l \in df.cols : Canon(l) = c]
    IN Relabel(df, newcols, from)

-----------------------------------------------------------------------------
(* Type Coercion & Cleaning, Period Key Builder *)

Object == [kind |-> "object", categories |-> {}]
Float64 == [kind |-> "float64", categories |-> {}]
Int64 == [kind |-> "Int64", categories |-> {}]
Datetime64 == [kind |-> "datetime64", categories |-> {}]
Category(S) == [kind |-> "category", categories |-> S]

\* The number a CSV text denotes, for the texts of the model that denote one.
NumberOf == ("0" :> 0) @@ ("1" :> 1) @@ ("2" :> 2) @@ ("13" :> 13) @@ ("-5" :> -5)
         @@ ("10" :> 10) @@ ("20" :> 20) @@ ("2022" :> 2022) @@ ("2023" :> 2023)

\* pd.to_numeric(..., errors="coerce") on one cell.
to_numeric(c) ==
    IF IsNa(c) THEN NaN
    ELSE IF Val(c) \in DOMAIN NumberOf THEN <<NumberOf[Val(c)]>> ELSE NaN

\* df[col] = vals, a Series of dtype dt aligned with the rows.
Assign(df, col, vals, dt) ==
    [cols  |-> df.cols,
     rows  |-> [i \in 1..Len(df.rows) |-> [df.rows[i] EXCEPT ![col] = vals[i]]],
     dtype |-> [df.dtype EXCEPT ![col] = dt]]

\* fillna with the fill left out (missing values stay missing): C2 must tell it from fillna.
fillna_keep(c, value) == c

\* Series.fillna(value) on one cell.
fillna(c, value) == IF IsNa(c) THEN <<value>> ELSE c

RECURSIVE AssignEach(_, _, _)
\* for c in cs: if c in df.columns: df[c] = <which>(df[c])
AssignEach(df, cs, which) ==
    IF cs = <<>> THEN df
    ELSE LET c == Head(cs)
             d == IF c \notin df.cols THEN df
                  ELSE CASE which = "to_numeric" ->
                                Assign(df, c, [i \in 1..Len(df.rows) |->
                                                 to_numeric(df.rows[i][c])], Float64)
                         [] which = "category"   ->
                                Assign(df, c, Column(df, c),
                                       Category({Val(x) : x \in Range(Column(df, c)) \ {NaN}}))
                         [] which = "fillna"     ->
                                Assign(df, c, [i \in 1..Len(df.rows) |->
                                                 fillna(df.rows[i][c], 0)], df.dtype[c])
         IN AssignEach(d, Tail(cs), which)

\* df.rename(columns={old: new}) when old is present and new is not.
Coalesce(df, old, new) ==
    IF old \in df.cols /\ new \notin df.cols
    THEN Relabel(df, (df.cols \ {old}) \cup {new},
                 [c \in (df.cols \ {old}) \cup {new} |-> IF c = new THEN old ELSE c])
    ELSE df

\* A (year, month, 1) triple pd.to_datetime can assemble into a Timestamp.
ValidDate(y, m) == m \in 1..12 /\ y \in 1678..2261

\* Timestamp(y, m, 1).to_period("M") as str: "2023-01".
PeriodStr(y, m) == ToString(y) \o "-" \o (IF m < 10 THEN "0" ELSE "") \o ToString(m)

AddColumn(df, col, vals, dt) ==
    [cols  |-> df.cols \cup {col},
     rows  |-> [i \in 1..Len(df.rows) |->
                  [c \in df.cols \cup {col} |-> IF c = col THEN vals[i] ELSE df.rows[i][c]]],
     dtype |-> [c \in df.cols \cup {col} |-> IF c = col THEN dt ELSE df.dtype[c]]]

dropna(df, subset) ==
    [df EXCEPT !.rows = SelectSeq(df.rows, LAMBDA r : \A c \in subset : ~IsNa(r[c]))]

Ok(df) == [ok |-> TRUE, df |-> df]

Raise(e) == [ok |-> FALSE, err |-> e]

\* Lines 94-103.
period_key(df) ==
    IF "YEAR" \in df.cols /\ "MONTH" \in df.cols
    THEN LET d1 == Assign(df, "YEAR", [i \in 1..Len(df.rows) |->
                                         to_numeric(df.rows[i]["YEAR"])], Int64)
             d2 == Assign(d1, "MONTH", [i \in 1..Len(df.rows) |->
                                          to_numeric(df.rows[i]["MONTH"])], Int64)
             d3 == dropna(d2, {"YEAR", "MONTH"})
         IN IF \A i \in 1..Len(d3.rows) :
                   ValidDate(Val(d3.rows[i]["YEAR"]), Val(d3.rows[i]["MONTH"]))
            THEN Ok(AddColumn(d3, "MONTH_YEAR",
                       [i \in 1..Len(d3.rows) |->
                           <<PeriodStr(Val(d3.rows[i]["YEAR"]), Val(d3.rows[i]["MONTH"]))>>],
                       Object))
            ELSE Raise("ValueError")
    ELSE Ok(df)

preprocess(df) ==
    LET s0 == standardize_columns(df)
        s1 == AssignEach(s0, <<"RETAIL_SALES", "RETAIL TRANSFERS", "RETAIL_TRANSFERS",
                               "WAREHOUSE_SALES", "RETAIL SALES", "RETAIL TRANSFERS",
                               "WAREHOUSE SALES">>, "to_numeric")
        s2 == Coalesce(Coalesce(Coalesce(s1, "RETAIL SALES", "RETAIL_SALES"),
                                "RETAIL TRANSFERS", "RETAIL_TRANSFERS"),
                       "WAREHOUSE SALES", "WAREHOUSE_SALES")
        s3 == AssignEach(s2, <<"SUPPLIER", "ITEM_CODE", "ITEM_DESCRIPTION", "ITEM_TYPE">>,
                         "category")
        s4 == AssignEach(s3, <<"RETAIL_SALES", "RETAIL_TRANSFERS", "WAREHOUSE_SALES">>,
                         "fillna")
    IN period_key(s4)
-----------------------------------------------------------------------------
(* Sidebar filters and the Filter Engine *)

\* Series.astype(str) on one cell of a text / category column.
astype_str(c) == IF IsNa(c) THEN "nan" ELSE Val(c)

\* Series.unique() of a column, as a set (missing value included when present).
unique(df, c) == Range(Column(df, c))

\* The integer a YEAR cell holds: an Int64 column holds it, an object column (YEAR
\* left as read when MONTH is absent) holds the text read_csv found.
YearNumber(df, c) == IF df.dtype["YEAR"].kind = "Int64" THEN c ELSE to_numeric(c)

\* Lines 147-166: the options each multiselect offers.
sidebar_options(df) ==
    LET ycells == IF "YEAR" \in df.cols THEN unique(df, "YEAR") \ {NaN} ELSE {}
    IN IF \E c \in ycells : IsNa(YearNumber(df, c))
       THEN Raise("ValueError")
       ELSE [ok        |-> TRUE,
             years     |-> SortedInts({Val(YearNumber(df, c)) : c \in ycells}),
             suppliers |-> IF "SUPPLIER" \in df.cols
                           THEN SortedSeq({astype_str(c) : c \in unique(df, "SUPPLIER")})
                           ELSE <<>>,
             types     |-> IF "ITEM_TYPE" \in df.cols
                           THEN SortedSeq({astype_str(c) : c \in unique(df, "ITEM_TYPE")})
                           ELSE <<>>]

RECURSIVE Masked(_, _)
Masked(rows, mask) ==
    IF rows = <<>> THEN <<>>
    ELSE (IF Head(mask) THEN <<Head(rows)>> ELSE <<>>) \o Masked(Tail(rows), Tail(mask))

\* df[mask]: the rows the boolean Series keeps, dtypes (and categories) untouched.
BoolIndex(df, mask) == [df EXCEPT !.rows = Masked(df.rows, mask)]

\* Series.isin(values) on a YEAR cell.
YearIsin(df, c, values) ==
    LET n == YearNumber(df, c) IN ~IsNa(n) /\ Val(n) \in values

\* apply_filters without the emptiness guards (an empty selection excludes every row):
\* C1 must tell it from apply_filters.
apply_filters_no_guard(df, ys, ss, ts) ==
    Ok(BoolIndex(df, [i \in 1..Len(df.rows) |->
                        /\ YearIsin(df, df.rows[i]["YEAR"], ys)
                        /\ astype_str(df.rows[i]["SUPPLIER"]) \in ss
                        /\ astype_str(df.rows[i]["ITEM_TYPE"]) \in ts]))

\* Lines 169-175.
apply_filters(df, ys, ss, ts) ==
    IF ys # {} /\ "YEAR" \notin df.cols THEN Raise("KeyError")
    ELSE LET f1 == IF ys # {}
                   THEN BoolIndex(df, [i \in 1..Len(df.rows) |->
                                         YearIsin(df, df.rows[i]["YEAR"], ys)])
                   ELSE df
             f2 == IF ss # {} /\ "SUPPLIER" \in f1.cols
                   THEN BoolIndex(f1, [i \in 1..Len(f1.rows) |->
                                         astype_str(f1.rows[i]["SUPPLIER"]) \in ss])
                   ELSE f1
             f3 == IF ts # {} /\ "ITEM_TYPE" \in f2.cols
                   THEN BoolIndex(f2, [i \in 1..Len(f2.rows) |->
                                         astype_str(f2.rows[i]["ITEM_TYPE"]) \in ts])
                   ELSE f2
         IN Ok(f3)

-----------------------------------------------------------------------------
(* Aggregator *)

TopN == 10

PreviewRows == 1000

\* The group keys of df.groupby(key): the values present (missing keys are dropped)
\* and, for a categorical key grouped with observed=False, every category.
GroupKeys(df, key, obs) ==
    {Val(c) : c \in unique(df, key) \ {NaN}}
        \cup (IF df.dtype[key].kind = "category" /\ ~obs THEN df.dtype[key].categories ELSE {})

GroupSum(df, key, k, col) ==
    SumSeq([i \in 1..Len(SelectSeq(df.rows, LAMBDA r : r[key] = <<k>>)) |->
               Val(SelectSeq(df.rows, LAMBDA r : r[key] = <<k>>)[i][col])])

\* df.groupby(key, as_index=False)[valcols].sum(): one row per key, keys ascending.
groupby_sum(df, key, valcols, obs) ==
    IF key \notin df.cols \/ ~(valcols \subseteq df.cols) THEN Raise("KeyError")
    ELSE LET keys == SortedSeq(GroupKeys(df, key, obs))
         IN [ok   |-> TRUE,
             rows |-> [i \in 1..Len(keys) |->
                         [c \in {key} \cup valcols |->
                             IF c = key THEN <<keys[i]>>
                             ELSE <<GroupSum(df, key, keys[i], c)>>]]]

RECURSIVE nlargest(_, _, _)
\* DataFrame.nlargest(n, col): the n rows with the largest col, largest first,
\* equal values in their original order (keep="first").
nlargest(rows, n, col) ==
    IF n = 0 \/ rows = <<>> THEN <<>>
    ELSE LET i == CHOOSE i \in 1..Len(rows) :
                      /\ \A j \in 1..Len(rows) : Val(rows[j][col]) <= Val(rows[i][col])
                      /\ \A j \in 1..(i - 1) : Val(rows[j][col]) < Val(rows[i][col])
         IN <<rows[i]>> \o nlargest(SubSeq(rows, 1, i - 1) \o SubSeq(rows, i + 1, Len(rows)),
                                    n - 1, col)

\* A KPI value: the float num / den.
Ratio(n, d) == [num |-> n, den |-> d]

Total(df, c) == IF c \in df.cols THEN SumSeq([i \in 1..Len(df.rows) |-> Val(df.rows[i][c])]) ELSE 0

\* avg_monthly without the grouping (the mean of RETAIL_SALES over the rows): C5 must
\* tell it from avg_monthly.
avg_per_row(df, obs) ==
    IF "MONTH_YEAR" \in df.cols /\ "RETAIL_SALES" \notin df.cols THEN Raise("KeyError")
    ELSE [ok |-> TRUE,
          v  |-> IF "MONTH_YEAR" \in df.cols /\ Len(df.rows) # 0
                 THEN Ratio(Total(df, "RETAIL_SALES"), Len(df.rows))
                 ELSE Ratio(0, 1)]

\* Lines 113-118: the mean of the monthly sums, 0.0 without months.
avg_monthly(df, obs) ==
    IF "MONTH_YEAR" \in df.cols
    THEN LET monthly == groupby_sum(df, "MONTH_YEAR", {"RETAIL_SALES"}, obs)
         IN IF ~monthly.ok THEN Raise(monthly.err)
            ELSE [ok |-> TRUE,
                  v  |-> IF Len(monthly.rows) # 0
                         THEN Ratio(SumSeq([i \in 1..Len(monthly.rows) |->
                                               Val(monthly.rows[i]["RETAIL_SALES"])]),
                                    Len(monthly.rows))
                         ELSE Ratio(0, 1)]
    ELSE [ok |-> TRUE, v |-> Ratio(0, 1)]

\* Lines 108-119.  The mapping keeps its insertion order.
kpi_block(df, obs) ==
    LET totals == <<[k |-> "Total Retail Sales", v |-> Ratio(Total(df, "RETAIL_SALES"), 1)],
                    [k |-> "Total Retail Transfers", v |-> Ratio(Total(df, "RETAIL_TRANSFERS"), 1)],
                    [k |-> "Total Warehouse Sales", v |-> Ratio(Total(df, "WAREHOUSE_SALES"), 1)]>>
        avg == avg_monthly(df, obs)
    IN IF avg.ok
       THEN [ok |-> TRUE, kpis |-> totals \o <<[k |-> "Avg Monthly Retail Sales", v |-> avg.v]>>]
       ELSE Raise(avg.err)

\* pd.to_datetime on one "YYYY-MM" cell: the first of that month.
to_datetime(c) == IF IsNa(c) THEN NaN ELSE <<Val(c) \o "-01">>

\* DataFrame.melt(id, var_name="Channel", value_name="Sales") over the value columns vs.
melt(rows, id, vs) ==
    IF vs = <<>> THEN <<>>
    ELSE [i \in 1..(Len(rows) * Len(vs)) |->
            LET v == vs[((i - 1) \div Len(rows)) + 1]
                r == rows[((i - 1) % Len(rows)) + 1]
            IN (id :> r[id]) @@ ("Channel" :> <<v>>) @@ ("Sales" :> r[v])]

\* DataFrame.to_csv(index=False): every cell as text, a missing value as the empty field.
CsvField(dt, c) ==
    IF IsNa(c) THEN ""
    ELSE IF dt.kind \in {"float64", "Int64"} THEN ToString(Val(c)) ELSE Val(c)

to_csv(df) ==
    [cols |-> df.cols,
     rows |-> [i \in 1..Len(df.rows) |-> [c \in df.cols |-> CsvField(df.dtype[c], df.rows[i][c])]]]

head(df, n) == [df EXCEPT !.rows = SubSeq(df.rows, 1, IF Len(df.rows) < n THEN Len(df.rows) ELSE n)]

\* round(num / den) to the nearest integer, halves to even, as format(v, ",.0f") rounds.
RoundHalfEven(v) ==
    LET q == v.num \div v.den
        r == v.num - q * v.den
    IN IF 2 * r < v.den THEN q
       ELSE IF 2 * r > v.den THEN q + 1
       ELSE IF q % 2 = 0 THEN q ELSE q + 1

RECURSIVE Thousands(_)
\* format(n, ",") for n >= 0.
Thousands(n) ==
    IF n < 1000 THEN ToString(n)
    ELSE Thousands(n \div 1000) \o ","
         \o (IF n % 1000 < 10 THEN "00" ELSE IF n % 1000 < 100 THEN "0" ELSE "")
         \o ToString(n % 1000)

\* f"{k}: {v:,.0f}"
KpiLine(e) ==
    LET n == RoundHalfEven(e.v)
    IN e.k \o ": " \o (IF n < 0 THEN "-" \o Thousands(-n) ELSE Thousands(n))
-----------------------------------------------------------------------------
(* The script: one action per stage of a run *)

Unset == <<>>

STOP_PROMPT == "Upload a CSV to proceed or turn off upload to use local data."
NO_TREND == "MONTH_YEAR column not available for trend chart."

sourceVars == <<default_file, use_upload, uploaded>>
cacheVars == <<load_cache, preprocess_cache>>
selVars == <<options, year_sel, supplier_sel, type_sel>>
chartVars == <<monthly_sales, top_suppliers, top_items, compare_melt>>
exportVars == <<preview, csv_buf, kpi_text>>

\* A run that ends on an uncaught exception.
Fail(e) == pc' = "error" /\ error' = e

\* load_default_data(), lines 53-60, under @st.cache_data: it takes no argument, so the
\* first result is the entry every later call gets.
load_default_hit == load_cache # <<>>

load_default_data == IF load_default_hit THEN Val(load_cache) ELSE standardize_columns(default_file)

\* DataInput without st.stop() (upload mode without a file falls back to the local
\* data): C6 must tell it from DataInput.
DataInput_fallback ==
    /\ pc = "input"
    /\ IF use_upload /\ uploaded # <<>>
       THEN raw' = uploaded /\ UNCHANGED load_cache
       ELSE raw' = <<load_default_data>> /\ load_cache' = <<load_default_data>>
    /\ pc' = "preprocess"
    /\ UNCHANGED <<sourceVars, preprocess_cache, _df, selVars, filtered, kpis, chartVars,
                   exportVars, messages, error>>

\* Lines 125-137.
DataInput ==
    /\ pc = "input"
    /\ IF use_upload
       THEN IF uploaded # <<>>
            THEN /\ raw' = uploaded
                 /\ pc' = "preprocess"
                 /\ UNCHANGED <<messages, load_cache>>
            ELSE /\ messages' = Append(messages, STOP_PROMPT)
                 /\ pc' = "stopped"
                 /\ UNCHANGED <<raw, load_cache>>
       ELSE /\ raw' = <<load_default_data>>
            /\ load_cache' = <<load_default_data>>
            /\ pc' = "preprocess"
            /\ UNCHANGED messages
    /\ UNCHANGED <<sourceVars, preprocess_cache, _df, selVars, filtered, kpis, chartVars,
                   exportVars, error>>

\* preprocess(raw), line 140, under @st.cache_data keyed by the content of its argument.
cached_preprocess(df) ==
    IF df \in DOMAIN preprocess_cache THEN Ok(preprocess_cache[df]) ELSE preprocess(df)

Preprocess ==
    /\ pc = "preprocess"
    /\ LET res == cached_preprocess(Val(raw))
       IN IF res.ok
          THEN /\ _df' = <<res.df>>
               /\ preprocess_cache' = (Val(raw) :> res.df) @@ preprocess_cache
               /\ pc' = "sidebar"
               /\ UNCHANGED error
          ELSE /\ Fail(res.err)
               /\ UNCHANGED <<_df, preprocess_cache>>
    /\ UNCHANGED <<sourceVars, load_cache, raw, selVars, filtered, kpis, chartVars,
                   exportVars, messages>>

\* Lines 145-166.  Each multiselect returns what the operator has selected among its options.
SidebarFilters ==
    /\ pc = "sidebar"
    /\ LET opts == sidebar_options(Val(_df))
       IN IF opts.ok
          THEN /\ options' = <<[years |-> opts.years, suppliers |-> opts.suppliers,
                                types |-> opts.types]>>
               /\ year_sel' \in SUBSET Range(opts.years)
               /\ supplier_sel' \in SUBSET Range(opts.suppliers)
               /\ type_sel' \in SUBSET Range(opts.types)
               /\ pc' = "filter"
               /\ UNCHANGED error
          ELSE /\ Fail(opts.err)
               /\ UNCHANGED selVars
    /\ UNCHANGED <<sourceVars, cacheVars, raw, _df, filtered, kpis, chartVars, exportVars,
                   messages>>

\* Lines 169-175.
ApplyFilters ==
    /\ pc = "filter"
    /\ LET res == apply_filters(Val(_df), year_sel, supplier_sel, type_sel)
       IN IF res.ok
          THEN filtered' = <<res.df>> /\ pc' = "kpi" /\ UNCHANGED error
          ELSE Fail(res.err) /\ UNCHANGED filtered
    /\ UNCHANGED <<sourceVars, cacheVars, raw, _df, selVars, kpis, chartVars, exportVars,
                   messages>>

\* Line 180.
Kpis ==
    /\ pc = "kpi"
    /\ \E obs \in BOOLEAN :
         LET res == kpi_block(Val(filtered), obs)
         IN IF res.ok
            THEN kpis' = <<res.kpis>> /\ pc' = "datetime" /\ UNCHANGED error
            ELSE Fail(res.err) /\ UNCHANGED kpis
    /\ UNCHANGED <<sourceVars, cacheVars, raw, _df, selVars, filtered, chartVars, exportVars,
                   messages>>

\* filtered["MONTH_YEAR"] = pd.to_datetime(filtered["MONTH_YEAR"]), lines 192-194.
ensure_datetime(df) ==
    IF "MONTH_YEAR" \in df.cols
    THEN Assign(df, "MONTH_YEAR", [i \in 1..Len(df.rows) |->
                                     to_datetime(df.rows[i]["MONTH_YEAR"])], Datetime64)
    ELSE df

EnsureDatetime ==
    /\ pc = "datetime"
    /\ filtered' = <<ensure_datetime(Val(filtered))>>
    /\ pc' = "trend"
    /\ UNCHANGED <<sourceVars, cacheVars, raw, _df, selVars, kpis, chartVars, exportVars,
                   messages, error>>

\* Lines 196-213.
MonthlyTrend ==
    /\ pc = "trend"
    /\ IF "MONTH_YEAR" \in Val(filtered).cols
       THEN \E obs \in BOOLEAN :
              LET res == groupby_sum(Val(filtered), "MONTH_YEAR", {"RETAIL_SALES"}, obs)
              IN IF res.ok
                 THEN /\ monthly_sales' = <<res.rows>>
                      /\ pc' = "top_suppliers"
                      /\ UNCHANGED <<error, messages>>
                 ELSE Fail(res.err) /\ UNCHANGED <<monthly_sales, messages>>
       ELSE /\ messages' = Append(messages, NO_TREND)
            /\ pc' = "top_suppliers"
            /\ UNCHANGED <<monthly_sales, error>>
    /\ UNCHANGED <<sourceVars, cacheVars, raw, _df, selVars, filtered, kpis, top_suppliers,
                   top_items, compare_melt, exportVars>>

\* Lines 215-232.  `obs` is the default of groupby's `observed`, which the pandas the
\* script runs on decides: False before pandas 3.0, True from 3.0 on.
top_n(df, key, obs) ==
    LET g == groupby_sum(df, key, {"RETAIL_SALES"}, obs)
    IN IF g.ok THEN [ok |-> TRUE, rows |-> nlargest(g.rows, TopN, "RETAIL_SALES")] ELSE g

TopSuppliers ==
    /\ pc = "top_suppliers"
    /\ IF "SUPPLIER" \in Val(filtered).cols
       THEN \E obs \in BOOLEAN :
              LET res == top_n(Val(filtered), "SUPPLIER", obs)
              IN IF res.ok
                 THEN top_suppliers' = <<res.rows>> /\ pc' = "top_items" /\ UNCHANGED error
                 ELSE Fail(res.err) /\ UNCHANGED top_suppliers
       ELSE pc' = "top_items" /\ UNCHANGED <<top_suppliers, error>>
    /\ UNCHANGED <<sourceVars, cacheVars, raw, _df, selVars, filtered, kpis, monthly_sales,
                   top_items, compare_melt, exportVars, messages>>

\* filtered["ITEM_DESCRIPTION"] = filtered["ITEM_DESCRIPTION"].astype(str), line 235.
item_description_str(df) ==
    IF "ITEM_DESCRIPTION" \in df.cols
    THEN Ok(Assign(df, "ITEM_DESCRIPTION",
                   [i \in 1..Len(df.rows) |-> <<astype_str(df.rows[i]["ITEM_DESCRIPTION"])>>],
                   Object))
    ELSE Raise("KeyError")

\* Lines 234-253.
TopItems ==
    /\ pc = "top_items"
    /\ LET cast == item_description_str(Val(filtered))
       IN IF cast.ok
          THEN \E obs \in BOOLEAN :
                 LET res == top_n(cast.df, "ITEM_DESCRIPTION", obs)
                 IN IF res.ok
                    THEN /\ filtered' = <<cast.df>>
                         /\ top_items' = <<res.rows>>
                         /\ pc' = "compare"
                         /\ UNCHANGED error
                    ELSE /\ filtered' = <<cast.df>>
                         /\ Fail(res.err)
                         /\ UNCHANGED top_items
          ELSE Fail(cast.err) /\ UNCHANGED <<filtered, top_items>>
    /\ UNCHANGED <<sourceVars, cacheVars, raw, _df, selVars, kpis, monthly_sales,
                   top_suppliers, compare_melt, exportVars, messages>>

\* Lines 255-276.
ChannelComparison ==
    /\ pc = "compare"
    /\ IF "MONTH_YEAR" \in Val(filtered).cols
       THEN \E obs \in BOOLEAN :
              LET res == groupby_sum(Val(filtered), "MONTH_YEAR",
                                     {"RETAIL_SALES", "WAREHOUSE_SALES"}, obs)
              IN IF res.ok
                 THEN /\ compare_melt' = <<melt(res.rows, "MONTH_YEAR",
                                                <<"RETAIL_SALES", "WAREHOUSE_SALES">>)>>
                      /\ pc' = "export"
                      /\ UNCHANGED error
                 ELSE Fail(res.err) /\ UNCHANGED compare_melt
       ELSE pc' = "export" /\ UNCHANGED <<compare_melt, error>>
    /\ UNCHANGED <<sourceVars, cacheVars, raw, _df, selVars, filtered, kpis, monthly_sales,
                   top_suppliers, top_items, exportVars, messages>>

\* Lines 284-304.
PreviewAndDownloads ==
    /\ pc = "export"
    /\ preview' = <<head(Val(filtered), PreviewRows)>>
    /\ csv_buf' = <<to_csv(Val(filtered))>>
    /\ kpi_text' = <<[i \in 1..Len(Val(kpis)) |-> KpiLine(Val(kpis)[i])]>>
    /\ pc' = "done"
    /\ UNCHANGED <<sourceVars, cacheVars, raw, _df, selVars, filtered, kpis, chartVars,
                   messages, error>>

Run == \/ DataInput
       \/ Preprocess
       \/ SidebarFilters
       \/ ApplyFilters
       \/ Kpis
       \/ EnsureDatetime
       \/ MonthlyTrend
       \/ TopSuppliers
       \/ TopItems
       \/ ChannelComparison
       \/ PreviewAndDownloads
-----------------------------------------------------------------------------
(* The session: reruns and changes of the input source between runs *)

Finished == pc \in {"done", "stopped", "error"}

\* Streamlit re-executes the script from the top; nothing of the last run survives
\* but the caches and the widget values.
StartRun ==
    /\ pc' = "input"
    /\ raw' = Unset /\ _df' = Unset /\ options' = Unset
    /\ year_sel' = {} /\ supplier_sel' = {} /\ type_sel' = {}
    /\ filtered' = Unset /\ kpis' = Unset
    /\ monthly_sales' = Unset /\ top_suppliers' = Unset /\ top_items' = Unset
    /\ compare_melt' = Unset
    /\ preview' = Unset /\ csv_buf' = Unset /\ kpi_text' = Unset
    /\ messages' = <<>> /\ error' = "none"

\* The canonical column names, and the spelling an input file may use for each.
Canonical == [YEAR |-> "YEAR", MONTH |-> "MONTH", SUPPLIER |-> "SUPPLIER",
              ITEM_CODE |-> "ITEM_CODE", ITEM_DESCRIPTION |-> "ITEM_DESCRIPTION",
              ITEM_TYPE |-> "ITEM_TYPE", RETAIL_SALES |-> "RETAIL_SALES",
              RETAIL_TRANSFERS |-> "RETAIL_TRANSFERS", WAREHOUSE_SALES |-> "WAREHOUSE_SALES"]

Spaced == [YEAR |-> " year", MONTH |-> "Month ", SUPPLIER |-> "supplier",
           ITEM_CODE |-> "Item Code", ITEM_DESCRIPTION |-> "item description ",
           ITEM_TYPE |-> " Item Type", RETAIL_SALES |-> "Retail Sales",
           RETAIL_TRANSFERS |-> "retail transfers", WAREHOUSE_SALES |-> " Warehouse Sales "]

\* The table pd.read_csv returns for a file whose header spells the columns `present`
\* as `label` does and whose records are `recs`: every cell the text of its field.
CsvTable(recs, present, label) ==
    [cols  |-> {label[c] : c \in present},
     rows  |-> [i \in 1..Len(recs) |->
                  [l \in {label[c] : c \in present} |->
                      recs[i][CHOOSE c \in present : label[c] = l]]],
     dtype |-> [l \in {label[c] : c \in present} |-> Object]]

\* Every file of at most max records drawn from Recs, under each header.
CsvTables(Recs, Presents, Labels, max) ==
    {CsvTable(recs, present, label) :
        recs \in UNION {[1..n -> Recs] : n \in 0..max},
        present \in Presents, label \in Labels}

InitSession(Files) ==
    /\ default_file \in Files
    /\ load_cache = <<>>
    /\ preprocess_cache = <<>>
    /\ use_upload = FALSE
    /\ uploaded = <<>>
    /\ pc = "input"
    /\ raw = Unset /\ _df = Unset /\ options = Unset
    /\ year_sel = {} /\ supplier_sel = {} /\ type_sel = {}
    /\ filtered = Unset /\ kpis = Unset
    /\ monthly_sales = Unset /\ top_suppliers = Unset /\ top_items = Unset
    /\ compare_melt = Unset
    /\ preview = Unset /\ csv_buf = Unset /\ kpi_text = Unset
    /\ messages = <<>> /\ error = "none"

\* Input files for the cleaning stages: measure cells that parse, do not parse or are
\* missing, under a header in the spaced spelling.
CleanFiles ==
    CsvTables([YEAR : {<<"2023">>, NaN}, MONTH : {<<"1">>, <<"13">>},
               SUPPLIER : {<<"A">>}, ITEM_CODE : {<<"X">>}, ITEM_DESCRIPTION : {<<"X">>},
               ITEM_TYPE : {<<"Y">>},
               RETAIL_SALES : {<<"-5">>, <<"abc">>, NaN},
               RETAIL_TRANSFERS : {<<"20">>, NaN},
               WAREHOUSE_SALES : {<<"abc">>}],
              {DOMAIN Canonical}, {Spaced}, MaxRows)

\* Input files for the filter: rows differing in year, supplier and item type.
FilterFiles ==
    CsvTables([YEAR : {<<"2022">>, <<"2023">>}, MONTH : {<<"1">>},
               SUPPLIER : {<<"A">>, <<"B">>, NaN}, ITEM_CODE : {<<"X">>},
               ITEM_DESCRIPTION : {<<"X">>}, ITEM_TYPE : {<<"X">>, <<"Y">>},
               RETAIL_SALES : {<<"10">>}, RETAIL_TRANSFERS : {<<"20">>},
               WAREHOUSE_SALES : {<<"20">>}],
              {DOMAIN Canonical}, {Canonical}, MaxRows)

\* Input files for the aggregations: rows differing in period and sales;
\* with and without a MONTH column.
AggFiles ==
    CsvTables([YEAR : {<<"2023">>}, MONTH : {<<"1">>, <<"2">>},
               SUPPLIER : {<<"A">>}, ITEM_CODE : {<<"X">>},
               ITEM_DESCRIPTION : {<<"X">>}, ITEM_TYPE : {<<"Y">>},
               RETAIL_SALES : {<<"10">>, <<"20">>, <<"-5">>}, RETAIL_TRANSFERS : {<<"20">>},
               WAREHOUSE_SALES : {<<"20">>}],
              {DOMAIN Canonical, DOMAIN Canonical \ {"MONTH"}}, {Canonical}, MaxAggRows)

\* Input files that lack one column of the canonical schema (or none).
AbsentFiles ==
    CsvTables([YEAR : {<<"2023">>}, MONTH : {<<"1">>, <<"2">>},
               SUPPLIER : {<<"A">>}, ITEM_CODE : {<<"X">>},
               ITEM_DESCRIPTION : {<<"X">>}, ITEM_TYPE : {<<"Y">>},
               RETAIL_SALES : {<<"10">>, <<"20">>}, RETAIL_TRANSFERS : {<<"20">>},
               WAREHOUSE_SALES : {<<"20">>}],
              {DOMAIN Canonical} \cup {DOMAIN Canonical \ {c} : c \in DOMAIN Canonical},
              {Canonical, Spaced}, MaxRows)

\* The files of a session: two contents of the default file or of an upload.
SessionRecord(sales) ==
    [YEAR |-> <<"2023">>, MONTH |-> <<"1">>, SUPPLIER |-> <<"A">>, ITEM_CODE |-> <<"X">>,
     ITEM_DESCRIPTION |-> <<"X">>, ITEM_TYPE |-> <<"Y">>, RETAIL_SALES |-> <<sales>>,
     RETAIL_TRANSFERS |-> <<"20">>, WAREHOUSE_SALES |-> <<"20">>]

SessionFiles ==
    {CsvTable(<<SessionRecord("10")>>, DOMAIN Canonical, Canonical),
     CsvTable(<<SessionRecord("20")>>, DOMAIN Canonical, Spaced)}

\* Any interaction with a widget reruns the script.
Rerun ==
    /\ Finished
    /\ StartRun
    /\ UNCHANGED <<sourceVars, cacheVars>>

\* The operator flips "Upload my own CSV".  The uploader is drawn only in upload
\* mode, so it starts empty each time the mode is entered.
ToggleUpload ==
    /\ Finished
    /\ use_upload' = ~use_upload
    /\ uploaded' = <<>>
    /\ StartRun
    /\ UNCHANGED <<default_file, cacheVars>>

\* The operator supplies a file to the uploader, or replaces the one supplied.
UploadFile ==
    /\ Finished
    /\ use_upload
    /\ \E f \in SessionFiles : uploaded # <<f>> /\ uploaded' = <<f>>
    /\ StartRun
    /\ UNCHANGED <<default_file, use_upload, cacheVars>>

\* The default file on disk gets a new content between two runs.
EditDefaultFile ==
    /\ Finished
    /\ \E f \in SessionFiles : f # default_file /\ default_file' = f
    /\ UNCHANGED <<use_upload, uploaded, cacheVars, pc, raw, _df, selVars, filtered, kpis,
                   chartVars, exportVars, messages, error>>

Next == \/ Run
        \/ Rerun
        \/ ToggleUpload
        \/ UploadFile
        \/ EditDefaultFile

Spec == InitSession(SessionFiles) /\ [][Next]_vars

InitClean == InitSession(CleanFiles)
SpecClean == InitClean /\ [][Run]_vars

InitFilter == InitSession(FilterFiles)
SpecFilter == InitFilter /\ [][Run]_vars

InitAgg == InitSession(AggFiles)
SpecAgg == InitAgg /\ [][Run]_vars

InitAbsent == InitSession(AbsentFiles)
SpecAbsent == InitAbsent /\ [][Run]_vars
-----------------------------------------------------------------------------
(* Properties *)

Measures == {"RETAIL_SALES", "RETAIL_TRANSFERS", "WAREHOUSE_SALES"}

IsNumber(cell) == cell # NaN /\ cell[1] \in DOMAIN NumberOf

StrForm(cell) == IF cell = NaN THEN "nan" ELSE cell[1]

RowMatches(r) ==
    /\ year_sel # {} => (r["YEAR"] # NaN /\ r["YEAR"][1] \in year_sel)
    /\ supplier_sel # {} => StrForm(r["SUPPLIER"]) \in supplier_sel
    /\ type_sel # {} => StrForm(r["ITEM_TYPE"]) \in type_sel

\* C1: the table the filter returns holds exactly the rows of the preprocessed table
\* that, for every dimension with a non-empty selection, have their value (year as an
\* integer, supplier and item type in string form) in the selection; an empty
\* selection constrains nothing; the dimensions combine by AND.
C1_FilterExact ==
    pc = "kpi" =>
        /\ Val(filtered).rows = SelectSeq(Val(_df).rows, RowMatches)
        /\ Val(filtered).cols = Val(_df).cols

\* Two rows of the selected year, one of them of a supplier that is not selected.
C1_Witness ==
    /\ pc = "kpi"
    /\ year_sel # {} /\ supplier_sel # {} /\ type_sel = {}
    /\ Len(Val(_df).rows) = 2
    /\ Len(Val(filtered).rows) = 1
    /\ \A i \in 1..2 : Val(_df).rows[i]["YEAR"][1] \in year_sel
    /\ \E i \in 1..2 : StrForm(Val(_df).rows[i]["SUPPLIER"]) \notin supplier_sel

\* The rows of the loaded table whose YEAR and MONTH both parse.
HasYearMonth(r) == IsNumber(r["YEAR"]) /\ IsNumber(r["MONTH"])

KeptRows == SelectSeq(Val(raw).rows, HasYearMonth)

\* C2: preprocess does not raise on a measure cell, and in its output every cell of
\* RETAIL_SALES, RETAIL_TRANSFERS and WAREHOUSE_SALES is non-null: the number its text
\* denotes (negative included), or 0 when the text is missing or denotes none.
C2_MeasuresClean ==
    /\ _df # Unset =>
          /\ Len(Val(_df).rows) = Len(KeptRows)
          /\ \A c \in Measures : \A i \in 1..Len(Val(_df).rows) :
                /\ Val(_df).rows[i][c] # NaN
                /\ Val(_df).rows[i][c][1] =
                      (IF IsNumber(KeptRows[i][c]) THEN NumberOf[KeptRows[i][c][1]] ELSE 0)
    /\ (pc = "error" /\ _df = Unset) =>
          \E i \in 1..Len(KeptRows) : NumberOf[KeptRows[i]["MONTH"][1]] \notin 1..12

\* An unparseable cell became 0, a negative one stayed negative, a missing one became 0.
C2_Witness ==
    /\ _df # Unset
    /\ Len(Val(_df).rows) = 2
    /\ KeptRows[1]["RETAIL_SALES"] = <<"abc">> /\ Val(_df).rows[1]["RETAIL_SALES"] = <<0>>
    /\ KeptRows[2]["RETAIL_SALES"] = <<"-5">> /\ Val(_df).rows[2]["RETAIL_SALES"] = <<-5>>
    /\ KeptRows[2]["RETAIL_TRANSFERS"] = NaN /\ Val(_df).rows[2]["RETAIL_TRANSFERS"] = <<0>>

\* A row whose YEAR and MONTH resolve to a calendar year and a month in 1..12.
Resolves(r) ==
    /\ HasYearMonth(r)
    /\ NumberOf[r["YEAR"][1]] >= 1
    /\ NumberOf[r["MONTH"][1]] \in 1..12

ResolvedRows == SelectSeq(Val(raw).rows, Resolves)

\* C3: preprocess returns exactly the rows whose YEAR and MONTH resolve, each with
\* MONTH_YEAR the year-month of the row; any other row is dropped and the stage
\* does not fail.
C3_DropUnresolvable ==
    pc \notin {"input", "preprocess"} =>
        /\ _df # Unset
        /\ Len(Val(_df).rows) = Len(ResolvedRows)
        /\ \A i \in 1..Len(ResolvedRows) :
              Val(_df).rows[i]["MONTH_YEAR"] =
                 <<PeriodStr(NumberOf[ResolvedRows[i]["YEAR"][1]],
                             NumberOf[ResolvedRows[i]["MONTH"][1]])>>
KpiRan == filtered # Unset /\ pc # "kpi"

RECURSIVE ColumnSum(_, _, _)
\* The sum of column c over the first n rows of df, 0 for an absent column.
ColumnSum(df, c, n) ==
    IF c \notin df.cols \/ n = 0 THEN 0
    ELSE df.rows[n][c][1] + ColumnSum(df, c, n - 1)

KpiValue(label) ==
    LET i == CHOOSE i \in 1..Len(Val(kpis)) : Val(kpis)[i].k = label IN Val(kpis)[i].v

\* C4: kpi_block returns the three totals, each the sum of its column over all rows
\* of the filtered table, 0 for an empty table or an absent column.
C4_Totals ==
    KpiRan =>
        /\ kpis # Unset
        /\ \A e \in {<<"Total Retail Sales", "RETAIL_SALES">>,
                     <<"Total Retail Transfers", "RETAIL_TRANSFERS">>,
                     <<"Total Warehouse Sales", "WAREHOUSE_SALES">>} :
              KpiValue(e[1]) = Ratio(ColumnSum(Val(filtered), e[2], Len(Val(filtered).rows)), 1)

\* The distinct periods of the filtered table and the RETAIL_SALES sum of each.
Periods == {r["MONTH_YEAR"][1] : r \in Range(Val(filtered).rows)}

PeriodSum(p) ==
    LET rows == SelectSeq(Val(filtered).rows, LAMBDA r : r["MONTH_YEAR"][1] = p)
    IN ColumnSum([Val(filtered) EXCEPT !.rows = rows], "RETAIL_SALES", Len(rows))

RECURSIVE SumOfPeriods(_)
SumOfPeriods(P) ==
    IF P = {} THEN 0
    ELSE LET p == CHOOSE p \in P : TRUE IN PeriodSum(p) + SumOfPeriods(P \ {p})

\* C5: Avg Monthly Retail Sales is the mean over the distinct MONTH_YEAR values of the
\* per-period sum of RETAIL_SALES, and 0.0 when MONTH_YEAR is absent or the table is empty.
C5_AvgOfMonthlyTotals ==
    KpiRan =>
        /\ kpis # Unset
        /\ Val(kpis)[4].k = "Avg Monthly Retail Sales"
        /\ LET avg == Val(kpis)[4].v
           IN /\ avg.den > 0
              /\ IF "MONTH_YEAR" \notin Val(filtered).cols \/ Val(filtered).rows = <<>>
                 THEN avg.num = 0
                 ELSE avg.num * Cardinality(Periods) = SumOfPeriods(Periods) * avg.den

\* Three rows in two periods: the mean of the two monthly totals is not the mean of the rows.
C5_Witness ==
    /\ pc = "datetime"
    /\ "MONTH_YEAR" \in Val(filtered).cols
    /\ Len(Val(filtered).rows) = 3
    /\ Cardinality(Periods) = 2
    /\ Val(kpis)[4].v.den = 2
    /\ Val(kpis)[4].v.num # 0

\* C6: a run in upload mode without a file shows the prompt, halts without an error
\* and produces nothing: no preprocessing, filter, KPI, chart or export output.
C6_UploadHalts ==
    (use_upload /\ uploaded = <<>> /\ pc # "input") =>
        /\ pc = "stopped"
        /\ error = "none"
        /\ messages = <<STOP_PROMPT>>
        /\ raw = Unset /\ _df = Unset /\ options = Unset /\ filtered = Unset /\ kpis = Unset
        /\ monthly_sales = Unset /\ top_suppliers = Unset /\ top_items = Unset
        /\ compare_melt = Unset
        /\ preview = Unset /\ csv_buf = Unset /\ kpi_text = Unset

\* The run halted although an earlier run had loaded and cached the local data.
C6_Witness ==
    /\ pc = "stopped"
    /\ use_upload /\ uploaded = <<>>
    /\ load_cache # <<>>
    /\ preprocess_cache # <<>>

AbsentCols == DOMAIN Canonical \ standardize_columns(default_file).cols

\* C7: with one of SUPPLIER, ITEM_CODE, ITEM_DESCRIPTION, ITEM_TYPE or a measure absent
\* from the input, the run raises no error; the absent column gives empty filter
\* options and a zero total.
C7_AbsentColumnTolerated ==
    (Cardinality(AbsentCols) = 1
        /\ AbsentCols \subseteq {"SUPPLIER", "ITEM_CODE", "ITEM_DESCRIPTION", "ITEM_TYPE"}
                                   \cup Measures) =>
        /\ error = "none"
        /\ (options # Unset /\ "SUPPLIER" \in AbsentCols) => Val(options).suppliers = <<>>
        /\ (options # Unset /\ "ITEM_TYPE" \in AbsentCols) => Val(options).types = <<>>
        /\ (kpis # Unset /\ "RETAIL_SALES" \in AbsentCols) =>
                KpiValue("Total Retail Sales") = Ratio(0, 1)
        /\ (kpis # Unset /\ "RETAIL_TRANSFERS" \in AbsentCols) =>
                KpiValue("Total Retail Transfers") = Ratio(0, 1)
        /\ (kpis # Unset /\ "WAREHOUSE_SALES" \in AbsentCols) =>
                KpiValue("Total Warehouse Sales") = Ratio(0, 1)

\* The values of a dimension that occur in the filtered table, and the sum of each.
Occurring(dim) == {r[dim][1] : r \in {r \in Range(Val(filtered).rows) : r[dim] # NaN}}

DimSum(dim, k) ==
    LET rows == SelectSeq(Val(filtered).rows, LAMBDA r : r[dim] = <<k>>)
    IN ColumnSum([Val(filtered) EXCEPT !.rows = rows], "RETAIL_SALES", Len(rows))

\* `top` holds the (at most TopN) values of dim occurring with the largest sums.
IsTopN(top, dim) ==
    /\ Len(top) = (IF Cardinality(Occurring(dim)) < TopN
                   THEN Cardinality(Occurring(dim)) ELSE TopN)
    /\ \A i \in 1..Len(top) :
          /\ top[i][dim][1] \in Occurring(dim)
          /\ top[i]["RETAIL_SALES"] = <<DimSum(dim, top[i][dim][1])>>
    /\ \A i, j \in 1..Len(top) :
          /\ i < j => top[i]["RETAIL_SALES"][1] >= top[j]["RETAIL_SALES"][1]
          /\ i # j => top[i][dim] # top[j][dim]
    /\ \A k \in Occurring(dim) :
          (\A i \in 1..Len(top) : top[i][dim][1] # k) =>
              \A i \in 1..Len(top) : DimSum(dim, k) <= top[i]["RETAIL_SALES"][1]

\* C8: the top-suppliers and the top-items table hold the values of the dimension that
\* occur in the filtered table with the 10 largest sums of RETAIL_SALES (all of them
\* when fewer occur), largest first, every value above the 10th-largest sum included.
C8_TopN ==
    /\ top_suppliers # Unset => IsTopN(Val(top_suppliers), "SUPPLIER")
    /\ top_items # Unset => IsTopN(Val(top_items), "ITEM_DESCRIPTION")

FilterOutput == apply_filters(Val(_df), year_sel, supplier_sel, type_sel).df

\* C9: no step after the filter changes a cell of the filtered table; the table
\* previewed and exported is the one the filter returned, MONTH_YEAR in year-month form.
C9_NoLaterChange ==
    /\ filtered # Unset => Val(filtered).rows = FilterOutput.rows
    /\ preview # Unset => Val(preview).rows = head(FilterOutput, PreviewRows).rows
    /\ csv_buf # Unset => Val(csv_buf).rows = to_csv(FilterOutput).rows

CurrentSource == IF use_upload THEN Val(uploaded) ELSE default_file

\* C10: the table a run filters and aggregates is the normalized and cleaned form of
\* the input source current at that run.
C10_FreshSource ==
    pc = "sidebar" => Val(_df) = preprocess(CurrentSource).df
====
